---- MODULE Spec2Model ----
(***************************************************************************)
(* polite-submit: the admission policy (decider.py), the peak schedule     *)
(* (config.py), the backoff controller (backoff.py) and the orchestration  *)
(* loop submit_single (cli.py).                                            *)
(*                                                                         *)
(* Units.  Durations are integers in tenths of a second.  A jitter factor  *)
(* is an integer in tenths (5 is 0.5, 15 is 1.5).  util_threshold is an    *)
(* integer in percent (85 is 0.85).  A utilization is the exact fraction   *)
(* <<numerator, denominator>>.                                             *)
(***************************************************************************)
EXTENDS Integers, Sequences, FiniteSets, TLC

VARIABLES
    config,      \* the Config the run was started with
    dry_run,     \* submit_single's dry_run argument
    backoff,     \* the BackoffController of the run (cli.py:94)
    state,       \* local `state` of submit_single: the ClusterState last probed
    now,         \* the clock value read by is_peak_hours inside decide
    decision,    \* local `decision`
    reason,      \* local `reason`
    wait_time,   \* local `wait_time`: the wait announced in the message
    job_id,      \* local `job_id`: what submit_job returned
    pc,          \* position in submit_single
    result,      \* return value of submit_single
    probed,          \* history: the run has probed at least once
    waitedSinceProbe,\* history: a backoff wait was taken since the last probe
    waitsSinceDecide,\* history: backoff waits taken since the last decide
    lastWait,        \* history: the value returned by the last backoff.wait()
    submitLog,       \* history: the context of the last submit_job call
    prev,        \* SpecDecide: the evaluation made before the current one
    env,         \* SpecProbe: what the scheduler answers to the three queries
    app          \* function-level specifications: the call made last

vars == <<config, dry_run, backoff, state, now, decision, reason, wait_time,
          job_id, pc, result, probed, waitedSinceProbe, waitsSinceDecide,
          lastWait, submitLog, prev, env, app>>

\* ------------------------------------------------------------------ bounds

MaxNodes == 2
MaxJobs == 2
MaxLimit == 2
MaxAttempts == 2
MaxCommits == 10
MaxScripts == 2
MaxIndex == 2
MaxChunk == 2

\* The longest command output parsed, in lines.
MaxLines == 3

\* The smallest chunk size given, by --chunk or by the configuration file.
MinChunk == 0

\* ----------------------------------------------------------------- helpers

None == "none"

Min(a, b) == IF a <= b THEN a ELSE b

Max(a, b) == IF a >= b THEN a ELSE b

RECURSIVE Pow(_, _)
Pow(b, e) == IF e = 0 THEN 1 ELSE b * Pow(b, e - 1)

\* --------------------------------------------------------------- decisions

SUBMIT == "submit"
BACKOFF == "backoff"
ABORT == "abort"

Decision == {SUBMIT, BACKOFF, ABORT}

\* ------------------------------------------------------------ ClusterState

ClusterState(total, allocated, idle, running, pending, others) ==
    [total_nodes |-> total, allocated_nodes |-> allocated, idle_nodes |-> idle,
     my_running |-> running, my_pending |-> pending, others_pending |-> others]

\* Faulty variant: a pool of no nodes reads as free.
utilizationFreeWhenEmpty(s) ==
    IF s.total_nodes = 0 THEN <<0, 1>> ELSE <<s.allocated_nodes, s.total_nodes>>

\* ClusterState.utilization, as an exact fraction.
utilization(s) ==
    IF s.total_nodes = 0 THEN <<1, 1>> ELSE <<s.allocated_nodes, s.total_nodes>>

\* Faulty variant: the utilization rule fires on the threshold itself.
UtilAtOrAbove(u, threshold) == u[1] * 100 >= threshold * u[2]

\* utilization > util_threshold, the threshold in percent.
UtilAbove(u, threshold) == u[1] * 100 > threshold * u[2]

\* The ':.0f' rendering of utilization*100: round to nearest, ties to even.
RoundPct(u) ==
    LET n == u[1] * 100
        q == n \div u[2]
        r == n % u[2]
    IN  IF 2 * r < u[2] THEN q
        ELSE IF 2 * r > u[2] THEN q + 1
        ELSE IF q % 2 = 0 THEN q ELSE q + 1

probe_mock(util_pct, running, pending, others) ==
    LET total_nodes == 10
        allocated_nodes == (total_nodes * util_pct) \div 100
    IN  ClusterState(total_nodes, allocated_nodes, total_nodes - allocated_nodes,
                     running, pending, others)

\* ------------------------------------------------------------------ Config

\* Faulty variant: the end hour of a window belongs to the window.
is_peak_hoursInclusiveEnd(c, t) ==
    IF ~c.peak_enabled THEN FALSE
    ELSE IF c.weekend_exempt /\ t.weekday >= 5 THEN FALSE
    ELSE \E i \in 1..Len(c.peak_hours) :
            c.peak_hours[i][1] <= t.hour /\ t.hour <= c.peak_hours[i][2]

\* Faulty variant: a window whose start is after its end wraps past midnight.
is_peak_hoursWrapAround(c, t) ==
    IF ~c.peak_enabled THEN FALSE
    ELSE IF c.weekend_exempt /\ t.weekday >= 5 THEN FALSE
    ELSE \E i \in 1..Len(c.peak_hours) :
            IF c.peak_hours[i][1] <= c.peak_hours[i][2]
            THEN c.peak_hours[i][1] <= t.hour /\ t.hour < c.peak_hours[i][2]
            ELSE c.peak_hours[i][1] <= t.hour \/ t.hour < c.peak_hours[i][2]

\* is_peak_hours(config, now); t is the clock value [weekday, hour].
is_peak_hours(c, t) ==
    IF ~c.peak_enabled THEN FALSE
    ELSE IF c.weekend_exempt /\ t.weekday >= 5 THEN FALSE
    ELSE \E i \in 1..Len(c.peak_hours) :
            c.peak_hours[i][1] <= t.hour /\ t.hour < c.peak_hours[i][2]

\* ----------------------------------------------------------------- decider

\* Faulty variant: the peak and the normal running limit exchanged.
EffectiveMaxConcurrentSwapped(c, peak) ==
    IF peak THEN c.max_concurrent ELSE c.peak_max_concurrent

\* Faulty variant: the peak pending limit without its floor of 1.
EffectiveMaxPendingNoFloor(c, peak) ==
    IF peak THEN c.max_pending - 1 ELSE c.max_pending

\* The effective limits of decide.
EffectiveMaxConcurrent(c, peak) ==
    IF peak THEN c.peak_max_concurrent ELSE c.max_concurrent

EffectiveMaxPending(c, peak) ==
    IF peak THEN Max(1, c.max_pending - 1) ELSE c.max_pending

\* The reason strings, by the rule that formats them and the numbers they show.
Reason(rule, value, limit) == [rule |-> rule, value |-> value, limit |-> limit]

ClearToSubmit == [rule |-> "clear", value |-> 0, limit |-> 0]

\* Faulty variant: the courtesy rule evaluated before the self-limits.
DecideCourtesyFirst(s, c, max_concurrent, max_pending) ==
    IF s.others_pending > c.queue_threshold
    THEN [decision |-> BACKOFF,
          reason |-> Reason("others", s.others_pending, c.queue_threshold)]
    ELSE IF s.my_running >= max_concurrent
    THEN [decision |-> BACKOFF,
          reason |-> Reason("running", s.my_running, max_concurrent)]
    ELSE IF s.my_pending >= max_pending
    THEN [decision |-> BACKOFF,
          reason |-> Reason("pending", s.my_pending, max_pending)]
    ELSE IF UtilAbove(utilization(s), c.util_threshold)
    THEN [decision |-> BACKOFF,
          reason |-> Reason("utilized", RoundPct(utilization(s)), c.util_threshold)]
    ELSE [decision |-> SUBMIT, reason |-> ClearToSubmit]

\* Faulty variant: the running rule fires only at the limit, not above it.
DecideAtRunningLimitOnly(s, c, max_concurrent, max_pending) ==
    IF s.my_running = max_concurrent
    THEN [decision |-> BACKOFF,
          reason |-> Reason("running", s.my_running, max_concurrent)]
    ELSE IF s.my_pending >= max_pending
    THEN [decision |-> BACKOFF,
          reason |-> Reason("pending", s.my_pending, max_pending)]
    ELSE IF s.others_pending > c.queue_threshold
    THEN [decision |-> BACKOFF,
          reason |-> Reason("others", s.others_pending, c.queue_threshold)]
    ELSE IF UtilAbove(utilization(s), c.util_threshold)
    THEN [decision |-> BACKOFF,
          reason |-> Reason("utilized", RoundPct(utilization(s)), c.util_threshold)]
    ELSE [decision |-> SUBMIT, reason |-> ClearToSubmit]

\* The rule chain of decide under given effective limits.
DecideWithLimits(s, c, max_concurrent, max_pending) ==
    IF s.my_running >= max_concurrent
    THEN [decision |-> BACKOFF,
          reason |-> Reason("running", s.my_running, max_concurrent)]
    ELSE IF s.my_pending >= max_pending
    THEN [decision |-> BACKOFF,
          reason |-> Reason("pending", s.my_pending, max_pending)]
    ELSE IF s.others_pending > c.queue_threshold
    THEN [decision |-> BACKOFF,
          reason |-> Reason("others", s.others_pending, c.queue_threshold)]
    ELSE IF UtilAbove(utilization(s), c.util_threshold)
    THEN [decision |-> BACKOFF,
          reason |-> Reason("utilized", RoundPct(utilization(s)), c.util_threshold)]
    ELSE [decision |-> SUBMIT, reason |-> ClearToSubmit]

\* Faulty variant: the peak check inside decide never consults the weekday.
decideWeekdayDropped(s, c, t) ==
    DecideWithLimits(s, c,
        EffectiveMaxConcurrent(c, is_peak_hours(c, [t EXCEPT !.weekday = 0])),
        EffectiveMaxPending(c, is_peak_hours(c, [t EXCEPT !.weekday = 0])))

\* Faulty variant: decide gives up on an empty or unreadable pool.
decideAbortsOnEmptyPool(s, c, t) ==
    IF s.total_nodes = 0
    THEN [decision |-> ABORT, reason |-> Reason("utilized", 100, c.util_threshold)]
    ELSE DecideWithLimits(s, c,
            EffectiveMaxConcurrent(c, is_peak_hours(c, t)),
            EffectiveMaxPending(c, is_peak_hours(c, t)))

\* decide(state, config), evaluated when the clock reads t.
decide(s, c, t) ==
    DecideWithLimits(s, c,
                     EffectiveMaxConcurrent(c, is_peak_hours(c, t)),
                     EffectiveMaxPending(c, is_peak_hours(c, t)))

\* ------------------------------------------------------- BackoffController

\* BackoffController.from_config: the controller submit_single starts with.
from_config(c) ==
    [initial_backoff |-> c.initial_backoff, max_backoff |-> c.max_backoff,
     multiplier |-> c.backoff_multiplier, max_attempts |-> c.max_attempts,
     jitter_range |-> <<5, 15>>, attempt |-> 0, total_wait |-> 0]

\* next_wait_estimate: the wait without jitter.
next_wait_estimate(b) ==
    Min(b.initial_backoff * Pow(b.multiplier, b.attempt), b.max_backoff)

\* Faulty variant: the base grows linearly with the attempt.
calculate_waitLinear(b, j) ==
    Min((b.initial_backoff * (b.multiplier * b.attempt) * j) \div 10,
        b.max_backoff)

\* Faulty variant: the cap applied to the base, the jitter after it.
calculate_waitCapBeforeJitter(b, j) ==
    (Min(b.initial_backoff * Pow(b.multiplier, b.attempt), b.max_backoff) * j)
        \div 10

\* Faulty variant: the jitter factor applied twice.
calculate_waitJitterTwice(b, j) ==
    Min((b.initial_backoff * Pow(b.multiplier, b.attempt) * j * j) \div 100,
        b.max_backoff)

\* calculate_wait with the jitter draw j (in tenths).
calculate_wait(b, j) ==
    Min((b.initial_backoff * Pow(b.multiplier, b.attempt) * j) \div 10,
        b.max_backoff)

\* Faulty variant: the total grows by the estimate, not by the wait taken.
waitAddsEstimate(b, j) ==
    [b EXCEPT !.attempt = @ + 1, !.total_wait = @ + next_wait_estimate(b)]

\* The controller after wait() drew jitter j; the call returns calculate_wait(b, j).
wait(b, j) ==
    [b EXCEPT !.attempt = @ + 1, !.total_wait = @ + calculate_wait(b, j)]

\* Faulty variant: wait_async counts the attempt but not the wait.
wait_asyncKeepsTotal(b, j) == [b EXCEPT !.attempt = @ + 1]

\* The controller after wait_async() drew jitter j; the call returns
\* calculate_wait(b, j) and does not sleep.
wait_async(b, j) ==
    [b EXCEPT !.attempt = @ + 1, !.total_wait = @ + calculate_wait(b, j)]

\* Faulty variant: reset steps the attempt back instead of clearing it.
resetStepsBack(b) == [b EXCEPT !.attempt = Max(0, @ - 1)]

\* Faulty variant: reset clears the total as well.
resetClearsTotal(b) == [b EXCEPT !.attempt = 0, !.total_wait = 0]

\* The controller after reset().
reset(b) == [b EXCEPT !.attempt = 0]

\* Faulty variant: abort only once the attempt is past max_attempts.
should_abortPastMax(b) == b.attempt > b.max_attempts

should_abort(b) == b.attempt >= b.max_attempts

\* The draws of random.uniform(*jitter_range) the model follows: both ends
\* and the middle of the range.
JitterDraws(b) ==
    {b.jitter_range[1], (b.jitter_range[1] + b.jitter_range[2]) \div 2,
     b.jitter_range[2]}

\* ------------------------------------------------- unbound locals, history

\* A local of submit_single that is not bound yet, by type.
NoState == ClusterState(-1, -1, -1, -1, -1, -1)

NoWait == -1

NoTime == [weekday |-> -1, hour |-> -1]

NoReason == [rule |-> None, value |-> 0, limit |-> 0]

\* No earlier evaluation.
NoEval == [now |-> NoTime, decision |-> None, reason |-> NoReason]

\* No scheduler answers, no call: the specification does not use them.
NoEnv == <<>>

NoCall == [fn |-> None]

\* No submit_job call yet.
NoSubmit == [called |-> FALSE, decision |-> None, probed |-> FALSE,
             decided |-> FALSE, policy |-> None]

\* ------------------------------------------------------------------ inputs

\* <<total, allocated>>: an empty or unreadable pool, and a pool of MaxNodes
\* nodes with any number of them allocated.
NodeCounts == {<<0, 0>>} \cup {<<MaxNodes, a>> : a \in 0..MaxNodes}

\* Queue-depth thresholds and the others_pending readings around them.
QueueThresholds == {0, 1}

OthersPending == {0, 1}

\* Utilization thresholds, in percent; 100 is what aggressive_mode sets.
UtilThresholds == {50, 100}

\* The snapshots decide is evaluated on.
Snapshots ==
    {ClusterState(n[1], n[2], n[1] - n[2], r, p, o) :
        n \in NodeCounts, r \in 0..MaxJobs, p \in 0..MaxJobs, o \in OthersPending}

\* Clock values: Friday in the hour before the default window, Friday in its
\* first hour, Saturday in its first hour.
Times ==
    {[weekday |-> 4, hour |-> 8], [weekday |-> 4, hour |-> 9],
     [weekday |-> 5, hour |-> 9]}

\* Peak settings: the default, peak checking disabled, no weekend exemption.
PeakSettings ==
    {[peak_enabled |-> TRUE, peak_hours |-> <<<<9, 17>>>>, weekend_exempt |-> TRUE],
     [peak_enabled |-> FALSE, peak_hours |-> <<<<9, 17>>>>, weekend_exempt |-> TRUE],
     [peak_enabled |-> TRUE, peak_hours |-> <<<<9, 17>>>>, weekend_exempt |-> FALSE]}

MakeConfig(mc, mp, qt, ut, pk, pmc, ma) ==
    [max_concurrent |-> mc, max_pending |-> mp, queue_threshold |-> qt,
     util_threshold |-> ut, peak_enabled |-> pk.peak_enabled,
     peak_hours |-> pk.peak_hours, peak_max_concurrent |-> pmc,
     weekend_exempt |-> pk.weekend_exempt,
     initial_backoff |-> 10, max_backoff |-> 30, backoff_multiplier |-> 2,
     max_attempts |-> ma]

\* The configurations decide is evaluated under.
DecideConfigs ==
    {MakeConfig(mc, mp, qt, ut, pk, pmc, MaxAttempts) :
        mc \in 1..MaxLimit, mp \in 0..MaxLimit, qt \in QueueThresholds,
        ut \in UtilThresholds, pk \in PeakSettings, pmc \in 1..MaxLimit}

\* The configurations submit_single is run under.
LoopConfigs ==
    {MakeConfig(MaxJobs, MaxJobs, qt, ut, pk, 1, ma) :
        qt \in QueueThresholds, ut \in UtilThresholds,
        pk \in {p \in PeakSettings : p.weekend_exempt}, ma \in 0..MaxAttempts}

\* -------------------------------------------------------------- SpecDecide
\* decide as a function: one snapshot and one configuration, evaluated at
\* successive moments.

InitDecide ==
    /\ config \in DecideConfigs
    /\ state \in Snapshots
    /\ dry_run = FALSE
    /\ backoff = from_config(config)
    /\ now = NoTime
    /\ decision = None
    /\ reason = NoReason
    /\ wait_time = NoWait
    /\ job_id = None
    /\ pc = "decide"
    /\ result = None
    /\ probed = FALSE
    /\ waitedSinceProbe = FALSE
    /\ waitsSinceDecide = 0
    /\ lastWait = NoWait
    /\ submitLog = NoSubmit
    /\ prev = NoEval
    /\ env = NoEnv
    /\ app = NoCall

Evaluate ==
    \E t \in Times :
        /\ now' = t
        /\ decision' = decide(state, config, t).decision
        /\ reason' = decide(state, config, t).reason
        /\ prev' = IF decision = None THEN NoEval
                   ELSE [now |-> now, decision |-> decision, reason |-> reason]
        /\ UNCHANGED <<env, app, config, dry_run, backoff, state, wait_time, job_id, pc,
                       result, probed, waitedSinceProbe, waitsSinceDecide,
                       lastWait, submitLog>>

NextDecide == Evaluate

SpecDecide == InitDecide /\ [][NextDecide]_vars

\* --------------------------------------------------------------- submit_job

\* What sbatch can do: print the job line, print something else, print
\* nothing, exit non-zero, time out.
SubmitOutcomes ==
    {"submitted", "other_output", "empty_output", "called_process_error",
     "timeout"}

\* Faulty variant: sbatch is run in a dry run as well.
submit_jobIgnoresDryRun(outcome, dry) ==
    CASE outcome = "submitted" -> "12345"
      [] outcome = "other_output" -> "Some other output"
      [] outcome = "empty_output" -> ""
      [] outcome = "called_process_error" -> None
      [] outcome = "timeout" -> None

\* submit_job's return value; "" is the empty string, None is None.
submit_job(outcome, dry) ==
    IF dry THEN "DRY-RUN-12345"
    ELSE CASE outcome = "submitted" -> "12345"
           [] outcome = "other_output" -> "Some other output"
           [] outcome = "empty_output" -> ""
           [] outcome = "called_process_error" -> None
           [] outcome = "timeout" -> None

\* Faulty variant: `if job_id is not None:`, the empty output passes.
TruthyUnlessNone(j) == j # None

\* `if job_id:`
Truthy(j) == j # None /\ j # ""

\* ------------------------------------------------------------ submit_single
\* pc: "loop" is the while test of line 97, "probe" lines 99-108, "decide"
\* line 111, "submit" lines 114-120, "announce" lines 123-128, "wait" line 129,
\* "done" after a return.

Init ==
    /\ config \in LoopConfigs
    /\ dry_run \in BOOLEAN
    /\ backoff = from_config(config)
    /\ state = NoState
    /\ now = NoTime
    /\ decision = None
    /\ reason = NoReason
    /\ wait_time = NoWait
    /\ job_id = None
    /\ pc = "loop"
    /\ result = None
    /\ probed = FALSE
    /\ waitedSinceProbe = FALSE
    /\ waitsSinceDecide = 0
    /\ lastWait = NoWait
    /\ submitLog = NoSubmit
    /\ prev = NoEval
    /\ env = NoEnv
    /\ app = NoCall

\* Faulty variant: every decision but Abort goes on to submit.
DispatchSubmitUnlessAbort(d) == IF d # ABORT THEN "submit" ELSE "loop"

\* Faulty variant: a Backoff decision goes back to the loop test without waiting.
DispatchBackoffSkipsWait(d) == IF d = SUBMIT THEN "submit" ELSE "loop"

\* Lines 113 and 122: where a decision leads.
Dispatch(d) ==
    IF d = SUBMIT THEN "submit"
    ELSE IF d = BACKOFF THEN "announce"
    ELSE "loop"

\* Line 97, and lines 131-136 when the test fails.  The locals state, reason,
\* wait_time and job_id are assigned again before the iteration reads them,
\* and are unbound again here; decision keeps the last decision made.
LoopCheck ==
    /\ pc = "loop"
    /\ IF should_abort(backoff)
       THEN /\ pc' = "done"
            /\ result' = "False"
            /\ UNCHANGED <<state, now, reason, wait_time, job_id, lastWait>>
       ELSE /\ pc' = "probe"
            /\ state' = NoState
            /\ now' = NoTime
            /\ reason' = NoReason
            /\ wait_time' = NoWait
            /\ job_id' = None
            /\ lastWait' = NoWait
            /\ UNCHANGED result
    /\ UNCHANGED <<env, app, config, dry_run, backoff, decision, probed, waitedSinceProbe,
                   waitsSinceDecide, submitLog, prev>>

\* Lines 99-108: probe_mock(utilization=0.5) in a dry run, probe otherwise.
Probe ==
    /\ pc = "probe"
    /\ \E s \in Snapshots :
          state' = IF dry_run THEN probe_mock(50, 0, 0, 0) ELSE s
    /\ probed' = TRUE
    /\ waitedSinceProbe' = FALSE
    /\ pc' = "decide"
    /\ UNCHANGED <<env, app, config, dry_run, backoff, now, decision, reason, wait_time,
                   job_id, result, waitsSinceDecide, lastWait, submitLog, prev>>

\* Line 111, and the branch taken at lines 113 and 122.
Decide ==
    /\ pc = "decide"
    /\ \E t \in Times :
          /\ now' = t
          /\ decision' = decide(state, config, t).decision
          /\ reason' = decide(state, config, t).reason
          /\ pc' = Dispatch(decide(state, config, t).decision)
    /\ waitsSinceDecide' = 0
    /\ UNCHANGED <<env, app, config, dry_run, backoff, state, wait_time, job_id, result,
                   probed, waitedSinceProbe, lastWait, submitLog, prev>>

\* Faulty variant: a failed submission is followed by a backoff wait.
SubmitJobBacksOffOnFailure ==
    /\ pc = "submit"
    /\ \E o \in SubmitOutcomes :
          /\ job_id' = submit_job(o, dry_run)
          /\ IF Truthy(submit_job(o, dry_run))
             THEN pc' = "done" /\ result' = "True" /\ UNCHANGED backoff
             ELSE /\ pc' = "loop" /\ UNCHANGED result
                  /\ \E j \in JitterDraws(backoff) : backoff' = wait(backoff, j)
    /\ submitLog' = [called |-> TRUE, decision |-> decision,
                     probed |-> state # NoState, decided |-> now # NoTime,
                     policy |-> IF state # NoState /\ now # NoTime
                                THEN decide(state, config, now).decision
                                ELSE None]
    /\ UNCHANGED <<env, app, config, dry_run, state, now, decision, reason,
                   wait_time, probed, waitedSinceProbe, waitsSinceDecide,
                   lastWait, prev>>

\* Lines 114-120.
SubmitJob ==
    /\ pc = "submit"
    /\ \E o \in SubmitOutcomes :
          /\ job_id' = submit_job(o, dry_run)
          /\ IF Truthy(submit_job(o, dry_run))
             THEN pc' = "done" /\ result' = "True"
             ELSE pc' = "loop" /\ UNCHANGED result
    /\ submitLog' = [called |-> TRUE, decision |-> decision,
                     probed |-> state # NoState, decided |-> now # NoTime,
                     policy |-> IF state # NoState /\ now # NoTime
                                THEN decide(state, config, now).decision
                                ELSE None]
    /\ UNCHANGED <<env, app, config, dry_run, backoff, state, now, decision, reason,
                   wait_time, probed, waitedSinceProbe, waitsSinceDecide,
                   lastWait, prev>>

\* Lines 123-128: the wait shown in the message is a calculate_wait of its own.
Announce ==
    /\ pc = "announce"
    /\ \E j \in JitterDraws(backoff) : wait_time' = calculate_wait(backoff, j)
    /\ pc' = "wait"
    /\ UNCHANGED <<env, app, config, dry_run, backoff, state, now, decision, reason,
                   job_id, result, probed, waitedSinceProbe, waitsSinceDecide,
                   lastWait, submitLog, prev>>

\* Line 129: backoff.wait().
Wait ==
    /\ pc = "wait"
    /\ \E j \in JitterDraws(backoff) :
          /\ lastWait' = calculate_wait(backoff, j)
          /\ backoff' = wait(backoff, j)
    /\ waitedSinceProbe' = TRUE
    /\ waitsSinceDecide' = waitsSinceDecide + 1
    /\ pc' = "loop"
    /\ UNCHANGED <<env, app, config, dry_run, state, now, decision, reason, wait_time,
                   job_id, result, probed, submitLog, prev>>

Next == LoopCheck \/ Probe \/ Decide \/ SubmitJob \/ Announce \/ Wait

Spec == Init /\ [][Next]_vars

\* The loop is one sequential thread: a step that can be taken is taken.
FairSpec == Spec /\ WF_vars(Next)

\* ------------------------------------------------- claims on decide (C1..)

\* An evaluation has been made; an earlier one too.
Evaluated == decision # None

EvaluatedBefore == prev.decision # None

PeakNow == is_peak_hours(config, now)

PeakBefore == is_peak_hours(config, prev.now)

\* The ceilings the specification gives, written out.
RunningCeiling ==
    IF PeakNow THEN config.peak_max_concurrent ELSE config.max_concurrent

PendingCeiling ==
    IF PeakNow
    THEN (IF config.max_pending - 1 >= 1 THEN config.max_pending - 1 ELSE 1)
    ELSE config.max_pending

RunningRule == state.my_running >= RunningCeiling

PendingRule == state.my_pending >= PendingCeiling

CourtesyRule == state.others_pending > config.queue_threshold

UtilizationRule ==
    IF state.total_nodes = 0
    THEN 100 > config.util_threshold
    ELSE state.allocated_nodes * 100 > config.util_threshold * state.total_nodes

\* C1: decide returns Submit exactly when my_running < running ceiling,
\* my_pending < pending ceiling, others_pending <= queue_threshold and
\* utilization <= util_threshold; in every other case it returns Backoff.
C1_SubmitIffAllClear ==
    Evaluated =>
        /\ decision = SUBMIT <=>
              ~RunningRule /\ ~PendingRule /\ ~CourtesyRule /\ ~UtilizationRule
        /\ decision # SUBMIT => decision = BACKOFF

\* C1 witness: all four signals sit exactly on their boundary and decide submits.
C1_Witness ==
    /\ Evaluated
    /\ decision = SUBMIT
    /\ state.my_running = RunningCeiling - 1
    /\ state.my_pending = PendingCeiling - 1
    /\ state.others_pending = config.queue_threshold
    /\ state.total_nodes > 0
    /\ state.allocated_nodes * 100 = config.util_threshold * state.total_nodes

\* C2: the reason returned is that of the first rule that matches, in the
\* order running-limit, pending-limit, courtesy, utilization.
C2_FirstMatchingRuleWins ==
    Evaluated =>
        reason.rule =
            IF RunningRule THEN "running"
            ELSE IF PendingRule THEN "pending"
            ELSE IF CourtesyRule THEN "others"
            ELSE IF UtilizationRule THEN "utilized"
            ELSE "clear"

\* C2 witness: the running rule and the courtesy rule match at once and the
\* reason names the running rule.
C2_Witness ==
    /\ Evaluated
    /\ state.my_running = RunningCeiling
    /\ CourtesyRule
    /\ PendingRule
    /\ UtilizationRule
    /\ reason.rule = "running"

\* C8 as stated: two evaluations on the same snapshot under the same
\* configuration return the same decision and the same reason, whatever the
\* moments at which they are made.
C8_SameInputsSameResult ==
    (Evaluated /\ EvaluatedBefore) =>
        (prev.decision = decision /\ prev.reason = reason)

\* C8 amended: two evaluations on the same snapshot under the same
\* configuration, made at moments with the same peak state, return the same
\* decision and the same reason.
C8_SamePeakStateSameResult ==
    (Evaluated /\ EvaluatedBefore /\ PeakBefore = PeakNow) =>
        (prev.decision = decision /\ prev.reason = reason)

\* C8 witness: two evaluations at different moments that are both off-peak
\* (a Saturday inside the window, exempted, after a Friday before it), under a
\* configuration whose peak limits would change the outcome.
C8_Witness ==
    /\ Evaluated
    /\ EvaluatedBefore
    /\ ~PeakBefore
    /\ ~PeakNow
    /\ prev.now.weekday = 4
    /\ now.weekday = 5
    /\ config.peak_enabled
    /\ state.my_running >= config.peak_max_concurrent
    /\ decision = SUBMIT
    /\ prev.decision = SUBMIT

\* C9: inside a peak window the running ceiling is peak_max_concurrent and the
\* pending ceiling is max(1, max_pending - 1), never below 1; outside they are
\* max_concurrent and max_pending.  The ceilings are read off decide: the rule
\* that fires shows its ceiling, and a rule that did not fire had its count
\* below the ceiling.
C9_EffectiveCeilings ==
    Evaluated =>
        /\ PeakNow => PendingCeiling >= 1
        /\ reason.rule = "running" =>
              reason.limit = RunningCeiling /\ state.my_running >= RunningCeiling
        /\ reason.rule # "running" => state.my_running < RunningCeiling
        /\ reason.rule = "pending" =>
              reason.limit = PendingCeiling /\ state.my_pending >= PendingCeiling
        /\ reason.rule \notin {"running", "pending"} =>
              state.my_pending < PendingCeiling

\* C9 witness: in a peak window with max_pending below 2, the pending rule
\* fires with the floored ceiling 1.
C9_Witness ==
    /\ Evaluated
    /\ PeakNow
    /\ config.max_pending <= 1
    /\ reason.rule = "pending"
    /\ reason.limit = 1

C3_Terminates == <>(pc = "done")

\* C4: submit_job is called only in an iteration whose decide returned Submit
\* on the snapshot probed in that iteration; never after a Backoff decision,
\* never after the run has ended.
C4_SubmitOnlyOnSubmit ==
    /\ pc = "submit" =>
          /\ decision = SUBMIT
          /\ state # NoState
          /\ now # NoTime
          /\ decide(state, config, now).decision = SUBMIT
          /\ result = None
    /\ submitLog.called =>
          /\ submitLog.decision = SUBMIT
          /\ submitLog.probed
          /\ submitLog.decided
          /\ submitLog.policy = SUBMIT

\* C4 witness: submit_job has been called in an iteration that follows a
\* backoff wait.
C4_Witness ==
    /\ submitLog.called
    /\ backoff.attempt >= 1
    /\ decision = SUBMIT
    /\ ~dry_run
    /\ pc = "done"
    /\ result = "True"

\* C5 as stated: after a Backoff decision the loop waits once and then probes
\* and evaluates again before the run ends; so no run ends on a Backoff.
C5_BackoffThenRetry ==
    /\ (pc \in {"loop", "probe", "done"} /\ decision = BACKOFF) =>
          waitsSinceDecide = 1
    /\ pc = "done" => decision # BACKOFF

\* C5 amended: after a Backoff decision the loop takes exactly one backoff
\* wait; then it probes and evaluates again unless the controller signals
\* abort (attempt >= max_attempts), in which case the run ends returning False
\* without another probe.
C5_BackoffThenRetryUnlessAbort ==
    /\ pc \in {"announce", "wait"} => (decision = BACKOFF /\ waitsSinceDecide = 0)
    /\ (pc \in {"loop", "probe", "done"} /\ decision = BACKOFF) =>
          waitsSinceDecide = 1
    /\ (pc = "probe" /\ decision = BACKOFF) => ~should_abort(backoff)
    /\ (pc = "done" /\ decision = BACKOFF) =>
          (should_abort(backoff) /\ result = "False")

\* C5 witness: after a Backoff decision and its one wait the loop is about to
\* probe again.
C5_Witness ==
    /\ pc = "probe"
    /\ decision = BACKOFF
    /\ waitsSinceDecide = 1
    /\ backoff.attempt = 1
    /\ probed

\* C6 as stated: between two consecutive probes of one run there is a backoff
\* wait.
C6_WaitBetweenProbes == (pc = "probe" /\ probed) => waitedSinceProbe

\* C7: decide returns Submit or Backoff with a reason, never Abort; the run
\* gives up only from attempt >= max_attempts.
C7_DecideNeverAborts ==
    /\ decision # None => decision \in {SUBMIT, BACKOFF}
    /\ pc \in {"submit", "announce", "wait"} =>
          /\ decision \in {SUBMIT, BACKOFF}
          /\ reason.rule \in {"running", "pending", "others", "utilized", "clear"}
          /\ decision = SUBMIT <=> reason.rule = "clear"
    /\ pc = "done" =>
          /\ result \in {"True", "False"}
          /\ result = "False" => backoff.attempt >= backoff.max_attempts

\* C7 witness: a run that gave up after max_attempts Backoff decisions.
C7_Witness ==
    /\ result = "False"
    /\ decision = BACKOFF
    /\ backoff.max_attempts > 0
    /\ backoff.attempt = backoff.max_attempts

\* ---------------------------------------------------------------- SpecPeak
\* is_peak_hours as a function: one configuration, asked at any hour of any
\* day of the week.

\* Schedules: none, the default, two windows around a lunch break, a window
\* written across midnight, a window of no hours, the last two beside a
\* proper window, and the whole day.
PeakSchedules ==
    {<<>>, <<<<9, 17>>>>, <<<<9, 12>>, <<13, 17>>>>, <<<<22, 6>>>>,
     <<<<12, 12>>>>, <<<<22, 6>>, <<9, 17>>>>, <<<<12, 12>>, <<13, 17>>>>,
     <<<<0, 24>>>>}

PeakConfigs ==
    {MakeConfig(MaxLimit, MaxLimit, 0, 100,
                [peak_enabled |-> e, peak_hours |-> h, weekend_exempt |-> w],
                1, MaxAttempts) :
        e \in BOOLEAN, h \in PeakSchedules, w \in BOOLEAN}

\* datetime.weekday() is 0 (Monday) to 6 (Sunday), datetime.hour 0 to 23.
Clock == [weekday : 0..6, hour : 0..23]

InitPeak ==
    /\ config \in PeakConfigs
    /\ dry_run = FALSE
    /\ backoff = from_config(config)
    /\ state = NoState
    /\ now = NoTime
    /\ decision = None
    /\ reason = NoReason
    /\ wait_time = NoWait
    /\ job_id = None
    /\ pc = "is_peak_hours"
    /\ result = None
    /\ probed = FALSE
    /\ waitedSinceProbe = FALSE
    /\ waitsSinceDecide = 0
    /\ lastWait = NoWait
    /\ submitLog = NoSubmit
    /\ prev = NoEval
    /\ env = NoEnv
    /\ app = NoCall

IsPeakHours ==
    \E t \in Clock :
        /\ now' = t
        /\ app' = [fn |-> "is_peak_hours", ret |-> is_peak_hours(config, t)]
        /\ UNCHANGED <<env, config, dry_run, backoff, state, decision, reason,
                       wait_time, job_id, pc, result, probed, waitedSinceProbe,
                       waitsSinceDecide, lastWait, submitLog, prev>>

NextPeak == IsPeakHours

SpecPeak == InitPeak /\ [][NextPeak]_vars

\* The hours the windows of the schedule cover, each window read as the
\* half-open interval [start, end).
ScheduledHours ==
    UNION {config.peak_hours[i][1]..(config.peak_hours[i][2] - 1) :
              i \in DOMAIN config.peak_hours}

Weekend == now.weekday \in {5, 6}

\* C11: is_peak_hours returns True exactly when peak checking is enabled, the
\* day is not an exempted Saturday or Sunday, and the hour lies in one of the
\* windows [start, end); with [9,17) hour 9 is peak and hour 17 is not, with
\* [9,12) and [13,17) hour 12 is not.
C11_PeakExactlyInAWindow ==
    app.fn = "is_peak_hours" =>
        /\ app.ret <=> /\ config.peak_enabled
                       /\ ~(config.weekend_exempt /\ Weekend)
                       /\ now.hour \in ScheduledHours
        /\ (config.peak_enabled /\ ~Weekend /\ config.peak_hours = <<<<9, 17>>>>)
              => /\ now.hour = 9 => app.ret
                 /\ now.hour = 17 => ~app.ret
        /\ (config.peak_enabled /\ ~Weekend
              /\ config.peak_hours = <<<<9, 12>>, <<13, 17>>>>)
              => /\ now.hour = 12 => ~app.ret
                 /\ now.hour \in {11, 13} => app.ret

C11_Witness ==
    /\ app.fn = "is_peak_hours"
    /\ config.peak_enabled /\ config.weekend_exempt
    /\ config.peak_hours = <<<<9, 12>>, <<13, 17>>>>
    /\ now = [weekday |-> 0, hour |-> 13]
    /\ app.ret

\* C12: a window whose start is not before its end matches no hour: a schedule
\* of such windows alone, like the empty schedule, makes no hour peak, and
\* beside proper windows it adds nothing to them.
C12_DegenerateWindowsNeverMatch ==
    app.fn = "is_peak_hours" =>
        /\ (\A i \in DOMAIN config.peak_hours :
                config.peak_hours[i][1] >= config.peak_hours[i][2]) => ~app.ret
        /\ app.ret = is_peak_hours(
               [config EXCEPT !.peak_hours =
                   SelectSeq(@, LAMBDA w : w[1] < w[2])], now)

C12_Witness ==
    /\ app.fn = "is_peak_hours"
    /\ config.peak_enabled
    /\ config.peak_hours = <<<<22, 6>>>>
    /\ now = [weekday |-> 0, hour |-> 23]
    /\ ~app.ret

\* --------------------------------------------------------------- SpecState
\* ClusterState.utilization as a function of a snapshot built field by field.

ClusterStates ==
    {ClusterState(t, a, i, r, p, 0) :
        t \in 0..MaxNodes, a \in 0..MaxNodes, i \in 0..MaxNodes,
        r \in 0..MaxJobs, p \in 0..MaxJobs}

InitState ==
    /\ config = MakeConfig(MaxLimit, MaxLimit, 0, 100,
                           CHOOSE pk \in PeakSettings : ~pk.peak_enabled,
                           1, MaxAttempts)
    /\ dry_run = FALSE
    /\ backoff = from_config(config)
    /\ state \in ClusterStates
    /\ now = NoTime
    /\ decision = None
    /\ reason = NoReason
    /\ wait_time = NoWait
    /\ job_id = None
    /\ pc = "utilization"
    /\ result = None
    /\ probed = FALSE
    /\ waitedSinceProbe = FALSE
    /\ waitsSinceDecide = 0
    /\ lastWait = NoWait
    /\ submitLog = NoSubmit
    /\ prev = NoEval
    /\ env = NoEnv
    /\ app = NoCall

Utilization ==
    /\ app' = [fn |-> "utilization", ret |-> utilization(state)]
    /\ UNCHANGED <<env, config, dry_run, backoff, state, now, decision, reason,
                   wait_time, job_id, pc, result, probed, waitedSinceProbe,
                   waitsSinceDecide, lastWait, submitLog, prev>>

NextState == Utilization

SpecState == InitState /\ [][NextState]_vars

\* C13: utilization is allocated_nodes / total_nodes when total_nodes > 0 and
\* 1.0 when total_nodes = 0.
C13_UtilizationRatioOrFull ==
    app.fn = "utilization" =>
        /\ app.ret[2] > 0
        /\ state.total_nodes > 0 =>
               app.ret[1] * state.total_nodes = state.allocated_nodes * app.ret[2]
        /\ state.total_nodes = 0 => app.ret[1] = app.ret[2]

C13_Witness ==
    /\ app.fn = "utilization"
    /\ state.total_nodes = 0
    /\ app.ret = <<1, 1>>

\* C14: decide never returns Submit for a snapshot whose total_nodes is 0,
\* whatever the configuration.
C14_EmptyPoolNeverSubmits ==
    (Evaluated /\ state.total_nodes = 0) => decision # SUBMIT

\* ------------------------------------------------------------------ prober
\* The output of a command is the sequence of its lines.  A line of sinfo is
\* the sequence of its whitespace-separated parts, the node count an integer;
\* a line of squeue is its text without surrounding blanks, "" a blank line.

\* str.lower() and str.upper() on the state tokens the model feeds.
Lower(token) ==
    CASE token = "ALLOC" -> "alloc"
      [] token = "MIXED" -> "mixed"
      [] token = "IDLE" -> "idle"
      [] OTHER -> token

Upper(token) ==
    CASE token = "r" -> "R"
      [] token = "pd" -> "PD"
      [] OTHER -> token

\* Faulty variant: nodes in a state that is neither allocated nor idle are
\* left out of the total.
RECURSIVE parse_sinfoKnownStatesOnly(_)
parse_sinfoKnownStatesOnly(output) ==
    IF output = <<>> THEN <<0, 0, 0>>
    ELSE LET parts == output[Len(output)]
             sofar == parse_sinfoKnownStatesOnly(
                          SubSeq(output, 1, Len(output) - 1))
         IN  IF Len(parts) >= 2
             THEN LET count == parts[1]
                      st == Lower(parts[2])
                  IN  IF st \in {"alloc", "allocated", "mix", "mixed"}
                      THEN <<sofar[1] + count, sofar[2] + count, sofar[3]>>
                      ELSE IF st \in {"idle"}
                      THEN <<sofar[1] + count, sofar[2], sofar[3] + count>>
                      ELSE sofar
             ELSE sofar

\* Faulty variant: mixed nodes are counted as allocated and as idle.
RECURSIVE parse_sinfoMixedCountsTwice(_)
parse_sinfoMixedCountsTwice(output) ==
    IF output = <<>> THEN <<0, 0, 0>>
    ELSE LET parts == output[Len(output)]
             sofar == parse_sinfoMixedCountsTwice(
                          SubSeq(output, 1, Len(output) - 1))
         IN  IF Len(parts) >= 2
             THEN LET count == parts[1]
                      st == Lower(parts[2])
                  IN  <<sofar[1] + count,
                        IF st \in {"alloc", "allocated", "mix", "mixed"}
                        THEN sofar[2] + count ELSE sofar[2],
                        IF st \in {"idle", "mix", "mixed"}
                        THEN sofar[3] + count ELSE sofar[3]>>
             ELSE sofar

\* parse_sinfo: <<total, allocated, idle>>.
RECURSIVE parse_sinfo(_)
parse_sinfo(output) ==
    IF output = <<>> THEN <<0, 0, 0>>
    ELSE LET parts == output[Len(output)]
             sofar == parse_sinfo(SubSeq(output, 1, Len(output) - 1))
         IN  IF Len(parts) >= 2
             THEN LET count == parts[1]
                      st == Lower(parts[2])
                  IN  <<sofar[1] + count,
                        IF st \in {"alloc", "allocated", "mix", "mixed"}
                        THEN sofar[2] + count ELSE sofar[2],
                        IF st \notin {"alloc", "allocated", "mix", "mixed"}
                           /\ st \in {"idle"}
                        THEN sofar[3] + count ELSE sofar[3]>>
             ELSE sofar

\* Faulty variant: a job in any state but pending counts as running.
RECURSIVE parse_squeue_statesAnyAsRunning(_)
parse_squeue_statesAnyAsRunning(output) ==
    IF output = <<>> THEN <<0, 0>>
    ELSE LET st == Upper(output[Len(output)])
             sofar == parse_squeue_statesAnyAsRunning(
                          SubSeq(output, 1, Len(output) - 1))
         IN  IF st = "PD" THEN <<sofar[1], sofar[2] + 1>>
             ELSE IF st # "" THEN <<sofar[1] + 1, sofar[2]>>
             ELSE sofar

\* parse_squeue_states: <<running, pending>>.
RECURSIVE parse_squeue_states(_)
parse_squeue_states(output) ==
    IF output = <<>> THEN <<0, 0>>
    ELSE LET st == Upper(output[Len(output)])
             sofar == parse_squeue_states(SubSeq(output, 1, Len(output) - 1))
         IN  IF st = "R" THEN <<sofar[1] + 1, sofar[2]>>
             ELSE IF st = "PD" THEN <<sofar[1], sofar[2] + 1>>
             ELSE sofar

\* Faulty variant: the caller's own pending jobs are counted as well.
RECURSIVE parse_squeue_usersCountsOwn(_, _)
parse_squeue_usersCountsOwn(output, my_username) ==
    IF output = <<>> THEN 0
    ELSE LET username == output[Len(output)]
             sofar == parse_squeue_usersCountsOwn(
                          SubSeq(output, 1, Len(output) - 1), my_username)
         IN  IF username # "" THEN sofar + 1 ELSE sofar

\* parse_squeue_users: the number of pending jobs of other users.
RECURSIVE parse_squeue_users(_, _)
parse_squeue_users(output, my_username) ==
    IF output = <<>> THEN 0
    ELSE LET username == output[Len(output)]
             sofar == parse_squeue_users(SubSeq(output, 1, Len(output) - 1),
                                         my_username)
         IN  IF username # "" /\ username # my_username THEN sofar + 1
             ELSE sofar

\* What run_cmd does with a command: returns its output, or raises
\* CalledProcessError (non-zero exit), TimeoutExpired, or the OSError of
\* subprocess.run when the program cannot be started.
Returned(out) == [kind |-> "ok", out |-> out]

Raised(exception) == [kind |-> exception, out |-> <<>>]

Exceptions == {"called_process_error", "timeout", "os_error"}

\* Faulty variant: the except clause without TimeoutExpired.
HandledExitOnly(a) == a.kind \in {"called_process_error"}

\* except (subprocess.CalledProcessError, subprocess.TimeoutExpired)
Handled(a) == a.kind \in {"called_process_error", "timeout"}

\* The three try blocks of probe, each on the answer to its query.
SinfoCounts(a) == IF a.kind = "ok" THEN parse_sinfo(a.out) ELSE <<0, 0, 0>>

MyJobs(a) == IF a.kind = "ok" THEN parse_squeue_states(a.out) ELSE <<0, 0>>

OthersJobs(a, username) ==
    IF a.kind = "ok" THEN parse_squeue_users(a.out, username) ELSE 0

\* --------------------------------------------------------------- SpecProbe
\* One call of probe, query by query, against every combination of answers.

Username == "alice"

SinfoOutputs ==
    {<<>>,
     <<<<4, "alloc">>, <<2, "idle">>, <<1, "mix">>>>,
     <<<<2, "IDLE">>, <<>>, <<1, "down">>>>,
     <<<<1, "MIXED">>, <<3>>, <<2, "allocated">>>>}

SqueueMineOutputs ==
    {<<>>, <<"R", "R", "PD">>, <<"PD">>, <<"r", "", "CG">>}

SqueuePendingOutputs ==
    {<<>>, <<"alice", "bob">>, <<"alice">>, <<"bob", "", "charlie">>}

Answers(outputs) ==
    {Returned(o) : o \in outputs} \cup {Raised(e) : e \in Exceptions}

Commands == <<"sinfo", "squeue_mine", "squeue_pending">>

InitProbe ==
    /\ config = MakeConfig(MaxLimit, MaxLimit, 0, 100,
                           CHOOSE pk \in PeakSettings : ~pk.peak_enabled,
                           1, MaxAttempts)
    /\ dry_run = FALSE
    /\ backoff = from_config(config)
    /\ state = NoState
    /\ now = NoTime
    /\ decision = None
    /\ reason = NoReason
    /\ wait_time = NoWait
    /\ job_id = None
    /\ pc = "sinfo"
    /\ result = None
    /\ probed = FALSE
    /\ waitedSinceProbe = FALSE
    /\ waitsSinceDecide = 0
    /\ lastWait = NoWait
    /\ submitLog = NoSubmit
    /\ prev = NoEval
    /\ env \in Answers(SinfoOutputs) \X Answers(SqueueMineOutputs)
                \X Answers(SqueuePendingOutputs)
    /\ app = [fn |-> "probe", issued |-> <<>>, raised |-> FALSE]

\* One try block: the command is issued; its answer is parsed, replaced by
\* the defaults, or leaves probe as an exception.
Query(at, i, then, bound) ==
    /\ pc = at
    /\ IF env[i].kind = "ok" \/ Handled(env[i])
       THEN /\ pc' = then
            /\ state' = bound
            /\ app' = [app EXCEPT !.issued = Append(@, Commands[i])]
       ELSE /\ pc' = "raised"
            /\ state' = state
            /\ app' = [app EXCEPT !.issued = Append(@, Commands[i]),
                                  !.raised = TRUE]
    /\ UNCHANGED <<env, config, dry_run, backoff, now, decision, reason,
                   wait_time, job_id, result, probed, waitedSinceProbe,
                   waitsSinceDecide, lastWait, submitLog, prev>>

QuerySinfo ==
    Query("sinfo", 1, "squeue_mine",
          [state EXCEPT !.total_nodes = SinfoCounts(env[1])[1],
                        !.allocated_nodes = SinfoCounts(env[1])[2],
                        !.idle_nodes = SinfoCounts(env[1])[3]])

QuerySqueueMine ==
    Query("squeue_mine", 2, "squeue_pending",
          [state EXCEPT !.my_running = MyJobs(env[2])[1],
                        !.my_pending = MyJobs(env[2])[2]])

\* The last query; probe returns the ClusterState of what it bound.
QuerySqueuePending ==
    Query("squeue_pending", 3, "done",
          ClusterState(state.total_nodes, state.allocated_nodes,
                       state.idle_nodes, state.my_running, state.my_pending,
                       OthersJobs(env[3], Username)))

NextProbe == QuerySinfo \/ QuerySqueueMine \/ QuerySqueuePending

SpecProbe == InitProbe /\ [][NextProbe]_vars

\* The queries that failed by timeout or non-zero exit, and those that did not
\* fail at all.
Failed(i) == env[i].kind \in {"timeout", "called_process_error"}

Succeeded(i) == env[i].kind = "ok"

\* C15: whatever combination of the three queries fails by timeout or non-zero
\* exit, probe issues all three in order, raises nothing and returns a
\* snapshot with zeros in the fields of a failed query and the parsed values
\* in the fields of a query that succeeded.
C15_QueriesFailIndependently ==
    (app.fn = "probe" /\ \A i \in 1..3 : Failed(i) \/ Succeeded(i)) =>
        /\ ~app.raised /\ pc # "raised"
        /\ app.issued = SubSeq(Commands, 1, Len(app.issued))
        /\ pc = "done" =>
            /\ app.issued = Commands
            /\ Failed(1) => /\ state.total_nodes = 0
                            /\ state.allocated_nodes = 0
                            /\ state.idle_nodes = 0
            /\ Failed(2) => state.my_running = 0 /\ state.my_pending = 0
            /\ Failed(3) => state.others_pending = 0
            /\ Succeeded(1) =>
                   <<state.total_nodes, state.allocated_nodes, state.idle_nodes>>
                       = parse_sinfo(env[1].out)
            /\ Succeeded(2) =>
                   <<state.my_running, state.my_pending>>
                       = parse_squeue_states(env[2].out)
            /\ Succeeded(3) =>
                   state.others_pending = parse_squeue_users(env[3].out, Username)
            /\ env[1] = Returned(<<<<4, "alloc">>, <<2, "idle">>, <<1, "mix">>>>)
                   => /\ state.total_nodes = 7
                      /\ state.allocated_nodes = 5
                      /\ state.idle_nodes = 2
            /\ env[2] = Returned(<<"R", "R", "PD">>)
                   => state.my_running = 2 /\ state.my_pending = 1
            /\ env[3] = Returned(<<"alice", "bob">>) => state.others_pending = 1

C15_Witness ==
    /\ app.fn = "probe" /\ pc = "done"
    /\ env[1] = Raised("timeout")
    /\ env[2] = Returned(<<"R", "R", "PD">>)
    /\ env[3] = Raised("called_process_error")
    /\ state = ClusterState(0, 0, 0, 2, 1, 0)
    /\ app.issued = Commands

\* C16: what probe produces when a query failed differs from what it produces
\* when that query, the others answering the same, succeeded with a zero
\* reading.  probe produces its return value and nothing else: it writes no
\* log and the ClusterState has no field for the success of a query.
C16_FailureDistinguishable ==
    (app.fn = "probe" /\ pc = "done") =>
        /\ Failed(1) => \A o \in SinfoOutputs :
               SinfoCounts(Returned(o))
                   # <<state.total_nodes, state.allocated_nodes, state.idle_nodes>>
        /\ Failed(2) => \A o \in SqueueMineOutputs :
               MyJobs(Returned(o)) # <<state.my_running, state.my_pending>>
        /\ Failed(3) => \A o \in SqueuePendingOutputs :
               OthersJobs(Returned(o), Username) # state.others_pending

\* ------------------------------------------------------------- SpecBackoff
\* One BackoffController, built by its constructor, and any sequence of calls
\* of its methods.  app records the call made last (the jitter it drew, what
\* it returned, how long it slept, the controller before it) and, as history,
\* the number of wait and wait_async calls so far, the sum of what they
\* returned, and whether reset was called.

\* <<initial_backoff, max_backoff>>: 10 s under the default cap of 1800 s,
\* 100 s under a cap of 150 s, 100 s over a cap of 50 s.
BackoffSettings == {<<100, 18000>>, <<1000, 1500>>, <<1000, 500>>}

\* No jitter, and the default range.
JitterRanges == {<<10, 10>>, <<5, 15>>}

Controllers ==
    {[initial_backoff |-> p[1], max_backoff |-> p[2], multiplier |-> 2,
      max_attempts |-> m, jitter_range |-> r,
      attempt |-> 0, total_wait |-> 0] :
        p \in BackoffSettings, r \in JitterRanges, m \in {0, MaxAttempts}}

NoSleep == -1

Call(fn, j, ret, slept, commits, returned) ==
    [fn |-> fn, jitter |-> j, ret |-> ret, slept |-> slept, before |-> backoff,
     commits |-> commits, returned |-> returned,
     was_reset |-> app.was_reset \/ fn = "reset"]

InitBackoff ==
    /\ backoff \in Controllers
    /\ config = MakeConfig(MaxLimit, MaxLimit, 0, 100,
                           CHOOSE pk \in PeakSettings : ~pk.peak_enabled,
                           1, MaxAttempts)
    /\ dry_run = FALSE
    /\ state = NoState
    /\ now = NoTime
    /\ decision = None
    /\ reason = NoReason
    /\ wait_time = NoWait
    /\ job_id = None
    /\ pc = "backoff"
    /\ result = None
    /\ probed = FALSE
    /\ waitedSinceProbe = FALSE
    /\ waitsSinceDecide = 0
    /\ lastWait = NoWait
    /\ submitLog = NoSubmit
    /\ prev = NoEval
    /\ env = NoEnv
    /\ app = [fn |-> None, jitter |-> 0, ret |-> NoWait, slept |-> NoSleep,
              before |-> backoff, commits |-> 0, returned |-> 0,
              was_reset |-> FALSE]

BackoffFrame ==
    UNCHANGED <<env, config, dry_run, state, now, decision, reason, wait_time,
                job_id, pc, result, probed, waitedSinceProbe, waitsSinceDecide,
                lastWait, submitLog, prev>>

\* Faulty variant: calculate_wait counts as an attempt.
CalculateWaitCountsAttempt ==
    \E j \in JitterDraws(backoff) :
        /\ app' = Call("calculate_wait", j, calculate_wait(backoff, j), NoSleep,
                       app.commits, app.returned)
        /\ backoff' = [backoff EXCEPT !.attempt = @ + 1]
        /\ BackoffFrame

CalculateWait ==
    \E j \in JitterDraws(backoff) :
        /\ app' = Call("calculate_wait", j, calculate_wait(backoff, j), NoSleep,
                       app.commits, app.returned)
        /\ UNCHANGED backoff
        /\ BackoffFrame

NextWaitEstimate ==
    /\ app' = Call("next_wait_estimate", 0, next_wait_estimate(backoff), NoSleep,
                   app.commits, app.returned)
    /\ UNCHANGED backoff
    /\ BackoffFrame

WaitSync ==
    /\ app.commits < MaxCommits
    /\ \E j \in JitterDraws(backoff) :
        /\ backoff' = wait(backoff, j)
        /\ app' = Call("wait", j, calculate_wait(backoff, j),
                       calculate_wait(backoff, j),
                       app.commits + 1, app.returned + calculate_wait(backoff, j))
    /\ BackoffFrame

WaitAsync ==
    /\ app.commits < MaxCommits
    /\ \E j \in JitterDraws(backoff) :
        /\ backoff' = wait_async(backoff, j)
        /\ app' = Call("wait_async", j, calculate_wait(backoff, j), NoSleep,
                       app.commits + 1, app.returned + calculate_wait(backoff, j))
    /\ BackoffFrame

Reset ==
    /\ backoff' = reset(backoff)
    /\ app' = Call("reset", 0, NoWait, NoSleep, app.commits, app.returned)
    /\ BackoffFrame

ShouldAbort ==
    /\ app' = Call("should_abort", 0, should_abort(backoff), NoSleep,
                   app.commits, app.returned)
    /\ UNCHANGED backoff
    /\ BackoffFrame

NextBackoff ==
    \/ CalculateWait \/ NextWaitEstimate \/ WaitSync \/ WaitAsync
    \/ Reset \/ ShouldAbort

SpecBackoff == InitBackoff /\ [][NextBackoff]_vars

\* The jitter range is (1.0, 1.0).
NoJitter == backoff.jitter_range = <<10, 10>>

\* The last call was a commit.
Committed == app.fn \in {"wait", "wait_async"}

\* initial_backoff * multiplier ^ attempt at the last call.
BaseAtCall ==
    app.before.initial_backoff * Pow(app.before.multiplier, app.before.attempt)

\* C17: with the jitter fixed at 1.0, calculate_wait at attempt n returns
\* min(initial_backoff * multiplier^n, max_backoff), which is also
\* next_wait_estimate: 10 s, 20 s, 40 s at attempts 0, 1, 2 from 10 s with
\* multiplier 2, and 150 s at attempt 10 from 100 s under a cap of 150 s.
C17_NoJitterWaitIsCappedPower ==
    (app.fn = "calculate_wait" /\ NoJitter) =>
        /\ app.ret = Min(BaseAtCall, backoff.max_backoff)
        /\ app.ret = next_wait_estimate(backoff)
        /\ (backoff.initial_backoff = 100 /\ backoff.max_backoff = 18000) =>
              /\ backoff.attempt = 0 => app.ret = 100
              /\ backoff.attempt = 1 => app.ret = 200
              /\ backoff.attempt = 2 => app.ret = 400
        /\ (backoff.initial_backoff = 1000 /\ backoff.max_backoff = 1500
              /\ backoff.attempt = 10) => app.ret = 1500

C17_Witness ==
    /\ app.fn = "calculate_wait" /\ NoJitter
    /\ backoff.initial_backoff = 1000 /\ backoff.max_backoff = 1500
    /\ backoff.attempt = 10
    /\ app.ret = 1500

\* C18: the cap is applied after the jitter: whatever the attempt and the
\* jitter draw, what calculate_wait, wait, wait_async and next_wait_estimate
\* return is at most max_backoff, also when initial_backoff exceeds it.
C18_WaitAtMostMaxBackoff ==
    app.fn \in {"calculate_wait", "wait", "wait_async", "next_wait_estimate"} =>
        /\ app.ret <= backoff.max_backoff
        /\ app.fn = "wait" => app.slept <= backoff.max_backoff

C18_Witness ==
    /\ app.fn = "wait" /\ app.jitter = 15
    /\ backoff.initial_backoff = 1000 /\ backoff.max_backoff = 500
    /\ app.ret = 500

\* C19: with base = initial_backoff * multiplier^attempt and the jitter range
\* [low, high], every wait computed lies between min(base * low, max_backoff)
\* and min(base * high, max_backoff) (both sides here times ten, the jitter
\* bounds being in tenths).
C19_JitterWithinRange ==
    app.fn \in {"calculate_wait", "wait", "wait_async"} =>
        /\ 10 * app.ret >= Min(BaseAtCall * backoff.jitter_range[1],
                               10 * backoff.max_backoff)
        /\ 10 * app.ret <= Min(BaseAtCall * backoff.jitter_range[2],
                               10 * backoff.max_backoff)

\* At attempt 0 with low < 1 a wait below initial_backoff.
C19_Witness ==
    /\ app.fn = "calculate_wait"
    /\ backoff.attempt = 0
    /\ backoff.jitter_range[1] < 10
    /\ app.jitter = backoff.jitter_range[1]
    /\ app.ret < backoff.initial_backoff
    /\ app.ret = 50

\* C20: a wait or wait_async call computes one wait, increases attempt by
\* exactly one, adds exactly that wait to total_wait and returns it; after k
\* such calls on a fresh controller attempt is k and total_wait is the sum
\* of the k waits returned.
C20_CommitCountsAndAccumulates ==
    /\ Committed =>
          /\ app.ret = calculate_wait(app.before, app.jitter)
          /\ backoff.attempt = app.before.attempt + 1
          /\ backoff.total_wait = app.before.total_wait + app.ret
          /\ app.fn = "wait" => app.slept = app.ret
          /\ [backoff EXCEPT !.attempt = 0, !.total_wait = 0]
               = [app.before EXCEPT !.attempt = 0, !.total_wait = 0]
    /\ ~app.was_reset =>
          /\ backoff.attempt = app.commits
          /\ backoff.total_wait = app.returned

C20_Witness ==
    /\ app.fn = "wait_async"
    /\ app.commits = 3
    /\ backoff.attempt = 3
    /\ backoff.initial_backoff = 100 /\ backoff.max_backoff = 18000
    /\ app.jitter = 15 /\ app.ret = 600
    /\ backoff.total_wait = 50 + 200 + 600

\* C21: calculate_wait, next_wait_estimate and should_abort only read the
\* controller: each call leaves attempt, total_wait and every parameter as
\* they were.
C21_ReadOnlyCalls ==
    app.fn \in {"calculate_wait", "next_wait_estimate", "should_abort"} =>
        /\ backoff.attempt = app.before.attempt
        /\ backoff.total_wait = app.before.total_wait
        /\ backoff = app.before

C21_Witness ==
    /\ app.fn = "calculate_wait"
    /\ backoff.attempt = 2 /\ backoff.total_wait > 0
    /\ app.ret > 0
    /\ backoff = app.before

\* C22: reset sets attempt to 0 from any state and leaves total_wait and the
\* parameters unchanged; the next wait is then computed as at attempt 0, and
\* should_abort is False whenever max_attempts > 0.
C22_ResetClearsAttemptOnly ==
    app.fn = "reset" =>
        /\ backoff.attempt = 0
        /\ backoff.total_wait = app.before.total_wait
        /\ [backoff EXCEPT !.attempt = app.before.attempt] = app.before
        /\ next_wait_estimate(backoff)
              = Min(backoff.initial_backoff, backoff.max_backoff)
        /\ \A j \in JitterDraws(backoff) :
              calculate_wait(backoff, j)
                  = Min((backoff.initial_backoff * j) \div 10, backoff.max_backoff)
        /\ backoff.max_attempts > 0 => ~should_abort(backoff)

C22_Witness ==
    /\ app.fn = "reset"
    /\ app.before.attempt = 3 /\ app.before.total_wait > 0
    /\ backoff.attempt = 0
    /\ backoff.total_wait = app.before.total_wait
    /\ backoff.max_attempts > 0

\* C23: total_wait is a lifetime total: over every sequence of calls it never
\* decreases and equals the sum of the waits returned by all wait and
\* wait_async calls so far, those before a reset included.
C23_TotalWaitIsLifetimeSum ==
    /\ backoff.total_wait = app.returned
    /\ backoff.total_wait >= app.before.total_wait
    /\ backoff.total_wait >= 0

C23_Witness ==
    /\ app.fn = "wait"
    /\ app.was_reset
    /\ app.commits = 3 /\ backoff.attempt = 1
    /\ backoff.total_wait = app.returned
    /\ backoff.total_wait > app.ret

\* C24: should_abort is True exactly when attempt >= max_attempts: a fresh
\* controller with max_attempts > 0 does not abort, one at attempt
\* max_attempts - 1 does not, one at attempt max_attempts or more does.
C24_AbortIffAttemptsExhausted ==
    app.fn = "should_abort" =>
        /\ app.ret <=> backoff.attempt >= backoff.max_attempts
        /\ (backoff.attempt = 0 /\ backoff.max_attempts > 0) => ~app.ret
        /\ backoff.attempt = backoff.max_attempts - 1 => ~app.ret
        /\ backoff.attempt = backoff.max_attempts => app.ret
        /\ backoff.attempt > backoff.max_attempts => app.ret

C24_Witness ==
    /\ app.fn = "should_abort"
    /\ backoff.max_attempts > 0
    /\ backoff.attempt = backoff.max_attempts
    /\ app.ret

\* --------------------------------------------------------------- SpecBatch
\* submit_batch and submit_array_chunked: app is the frame of the call (its
\* arguments, the locals start, end, current, chunks, submitted, the position
\* i of the for loop, the value returned) with, as history, the results of
\* the submit_single runs made so far.  Each run is the loop of submit_single
\* above.  pc: "parse" lines 191-197, "chunking" the while loop of lines
\* 198-201, "for" the head of the for loop, "returned" after the return.

\* The scripts of a batch.
ScriptNames == <<"job1.sh", "job2.sh", "job3.sh">>

Scripts == {SubSeq(ScriptNames, 1, n) : n \in 0..MaxScripts}

\* Array ranges: "start-end" is <<start, end>>, the single value "N" is <<N>>.
ArrayRanges ==
    {<<a, b>> : a \in 0..MaxIndex, b \in 0..MaxIndex}
        \cup {<<n>> : n \in 0..MaxIndex}

\* The configuration of the runs: every run can submit, fail to submit or
\* back off until the attempts are used up.
BatchConfigs ==
    {MakeConfig(MaxJobs, MaxJobs, 1, 100,
                CHOOSE pk \in PeakSettings : ~pk.peak_enabled, 1, 1)}

NoIndex == -1

Frame(fn, items, array_range, chunk_size) ==
    [fn |-> fn, items |-> items, array_range |-> array_range,
     chunk_size |-> chunk_size, start |-> NoIndex, end |-> NoIndex,
     current |-> NoIndex, i |-> 1, submitted |-> 0, log |-> <<>>,
     ret |-> NoIndex]

InitBatch ==
    /\ config \in BatchConfigs
    /\ dry_run = FALSE
    /\ backoff = from_config(config)
    /\ state = NoState
    /\ now = NoTime
    /\ decision = None
    /\ reason = NoReason
    /\ wait_time = NoWait
    /\ job_id = None
    /\ result = None
    /\ probed = FALSE
    /\ waitedSinceProbe = FALSE
    /\ waitsSinceDecide = 0
    /\ lastWait = NoWait
    /\ submitLog = NoSubmit
    /\ prev = NoEval
    /\ env = NoEnv
    /\ \/ /\ pc = "for"
          /\ \E scripts \in Scripts :
                app = Frame("submit_batch", scripts, <<>>, 0)
       \/ /\ pc = "parse"
          /\ \E r \in ArrayRanges, c \in 1..MaxChunk :
                app = Frame("submit_array_chunked", <<>>, r, c)

\* Lines 191-194 and 196-197.
ParseRange ==
    /\ pc = "parse"
    /\ LET start == app.array_range[1]
           end == IF Len(app.array_range) = 2 THEN app.array_range[2]
                  ELSE app.array_range[1]
       IN  app' = [app EXCEPT !.start = start, !.end = end, !.current = start]
    /\ pc' = "chunking"
    /\ UNCHANGED <<env, config, dry_run, backoff, state, now, decision, reason,
                   wait_time, job_id, result, probed, waitedSinceProbe,
                   waitsSinceDecide, lastWait, submitLog, prev>>

\* Faulty variant: a chunk runs up to and including the start of the next.
ChunkEndOverlapping(current, chunk_size, end) == Min(current + chunk_size, end)

\* Line 199.
ChunkEnd(current, chunk_size, end) == Min(current + chunk_size - 1, end)

\* Lines 198-201: one pass of the while loop, or its exit.
ChunkStep ==
    /\ pc = "chunking"
    /\ IF app.current <= app.end
       THEN LET chunk_end == ChunkEnd(app.current, app.chunk_size, app.end)
            IN  /\ app' = [app EXCEPT
                              !.items = Append(@, <<app.current, chunk_end>>),
                              !.current = chunk_end + 1]
                /\ pc' = pc
       ELSE /\ pc' = "for"
            /\ app' = app
    /\ UNCHANGED <<env, config, dry_run, backoff, state, now, decision, reason,
                   wait_time, job_id, result, probed, waitedSinceProbe,
                   waitsSinceDecide, lastWait, submitLog, prev>>

\* Faulty variant: the runs of one call share one controller.
StartRunSharedController ==
    /\ pc = "for"
    /\ app.i <= Len(app.items)
    /\ backoff' = backoff
    /\ state' = NoState
    /\ now' = NoTime
    /\ decision' = None
    /\ reason' = NoReason
    /\ wait_time' = NoWait
    /\ job_id' = None
    /\ pc' = "loop"
    /\ result' = None
    /\ probed' = FALSE
    /\ waitedSinceProbe' = FALSE
    /\ waitsSinceDecide' = 0
    /\ lastWait' = NoWait
    /\ submitLog' = NoSubmit
    /\ UNCHANGED <<env, app, config, dry_run, prev>>

\* Lines 158-160 and 209-212: the next item; submit_single is entered, its
\* locals unbound and its controller new (line 94).
StartRun ==
    /\ pc = "for"
    /\ app.i <= Len(app.items)
    /\ backoff' = from_config(config)
    /\ state' = NoState
    /\ now' = NoTime
    /\ decision' = None
    /\ reason' = NoReason
    /\ wait_time' = NoWait
    /\ job_id' = None
    /\ pc' = "loop"
    /\ result' = None
    /\ probed' = FALSE
    /\ waitedSinceProbe' = FALSE
    /\ waitsSinceDecide' = 0
    /\ lastWait' = NoWait
    /\ submitLog' = NoSubmit
    /\ UNCHANGED <<env, app, config, dry_run, prev>>

\* Faulty variant: the first run that returns False ends the for loop.
EndRunStopsOnFailure ==
    /\ pc = "done"
    /\ app.fn \in {"submit_batch", "submit_array_chunked"}
    /\ app' = [app EXCEPT
                  !.submitted = IF result = "True" THEN @ + 1 ELSE @,
                  !.log = Append(@, [item |-> app.items[app.i],
                                     result |-> result]),
                  !.i = IF result = "True" THEN @ + 1 ELSE Len(app.items) + 1]
    /\ pc' = "for"
    /\ UNCHANGED <<env, config, dry_run, backoff, state, now, decision, reason,
                   wait_time, job_id, result, probed, waitedSinceProbe,
                   waitsSinceDecide, lastWait, submitLog, prev>>

\* Lines 160-161 and 212-213: submit_single has returned.
EndRun ==
    /\ pc = "done"
    /\ app.fn \in {"submit_batch", "submit_array_chunked"}
    /\ app' = [app EXCEPT
                  !.submitted = IF result = "True" THEN @ + 1 ELSE @,
                  !.log = Append(@, [item |-> app.items[app.i],
                                     result |-> result]),
                  !.i = @ + 1]
    /\ pc' = "for"
    /\ UNCHANGED <<env, config, dry_run, backoff, state, now, decision, reason,
                   wait_time, job_id, result, probed, waitedSinceProbe,
                   waitsSinceDecide, lastWait, submitLog, prev>>

\* Lines 163-167 and 215-219: the for loop is exhausted.
ReturnSubmitted ==
    /\ pc = "for"
    /\ app.i > Len(app.items)
    /\ app' = [app EXCEPT !.ret = app.submitted]
    /\ pc' = "returned"
    /\ UNCHANGED <<env, config, dry_run, backoff, state, now, decision, reason,
                   wait_time, job_id, result, probed, waitedSinceProbe,
                   waitsSinceDecide, lastWait, submitLog, prev>>

NextBatch ==
    \/ ParseRange \/ ChunkStep \/ StartRun \/ EndRun \/ ReturnSubmitted
    \/ LoopCheck \/ Probe \/ Decide \/ SubmitJob \/ Announce \/ Wait

SpecBatch == InitBatch /\ [][NextBatch]_vars

\* A run of submit_single is in progress, and a run is at its first line.
RunActive == pc \in {"loop", "probe", "decide", "submit", "announce", "wait"}

RunStarting == pc = "loop" /\ ~probed

\* The number of finished runs that returned True.
RunsReturnedTrue ==
    Cardinality({k \in DOMAIN app.log : app.log[k].result = "True"})

\* C25: submit_batch runs one loop per script, one after the other in list
\* order; a run that returns False does not stop the later ones, and the
\* value returned is the number of runs that returned True, between 0 and the
\* number of scripts.
C25_BatchSequentialInOrder ==
    app.fn = "submit_batch" =>
        /\ Len(app.log) = app.i - 1
        /\ \A k \in DOMAIN app.log :
              /\ app.log[k].item = app.items[k]
              /\ app.log[k].result \in {"True", "False"}
        /\ RunActive \/ pc = "done" => app.i \in 1..Len(app.items)
        /\ app.submitted = RunsReturnedTrue
        /\ pc = "returned" =>
              /\ Len(app.log) = Len(app.items)
              /\ app.ret = RunsReturnedTrue
              /\ 0 <= app.ret /\ app.ret <= Len(app.items)

C25_Witness ==
    /\ app.fn = "submit_batch" /\ pc = "returned"
    /\ app.items = <<"job1.sh", "job2.sh">>
    /\ app.log = <<[item |-> "job1.sh", result |-> "False"],
                   [item |-> "job2.sh", result |-> "True"]>>
    /\ app.ret = 1

\* C26: every run of submit_single, for a script of a batch or a chunk of an
\* array, starts with a controller of its own at attempt 0 and total_wait 0,
\* whatever the runs before it used up.
C26_FreshControllerPerRun ==
    (app.fn \in {"submit_batch", "submit_array_chunked"} /\ RunStarting) =>
        /\ backoff.attempt = 0
        /\ backoff.total_wait = 0
        /\ backoff = from_config(config)

C26_Witness ==
    /\ app.fn = "submit_array_chunked" /\ RunStarting
    /\ app.i = 2
    /\ app.log[1].result = "False"
    /\ backoff.attempt = 0 /\ backoff.total_wait = 0

\* The chunks made, as sets of indices.
ChunkIndices(k) == app.items[k][1]..app.items[k][2]

\* C27: for a range start-end with start <= end and chunk_size >= 1 the chunks
\* are consecutive, ascending and disjoint, cover every index of the range
\* exactly once, hold at most chunk_size indices and all but the last exactly
\* chunk_size; there are ceil((end - start + 1) / chunk_size) of them; a
\* single value N gives the chunk N-N; one run is made per chunk and the
\* value returned is the number of runs that returned True.
C27_ChunksPartitionTheRange ==
    (app.fn = "submit_array_chunked" /\ pc \notin {"parse", "chunking"}
        /\ app.start <= app.end /\ app.chunk_size >= 1) =>
        LET n == Len(app.items)
        IN  /\ n = (app.end - app.start + app.chunk_size) \div app.chunk_size
            /\ app.items[1][1] = app.start
            /\ app.items[n][2] = app.end
            /\ \A k \in 1..(n - 1) :
                  /\ app.items[k + 1][1] = app.items[k][2] + 1
                  /\ Cardinality(ChunkIndices(k)) = app.chunk_size
            /\ \A k \in 1..n :
                  /\ Cardinality(ChunkIndices(k)) >= 1
                  /\ Cardinality(ChunkIndices(k)) <= app.chunk_size
            /\ \A x \in app.start..app.end :
                  Cardinality({k \in 1..n : x \in ChunkIndices(k)}) = 1
            /\ \A k \in 1..n : ChunkIndices(k) \subseteq app.start..app.end
            /\ Len(app.array_range) = 1 =>
                  app.items = <<<<app.array_range[1], app.array_range[1]>>>>
            /\ \A k \in DOMAIN app.log : app.log[k].item = app.items[k]
            /\ pc = "returned" =>
                  /\ Len(app.log) = n
                  /\ app.ret = RunsReturnedTrue

C27_Witness ==
    /\ app.fn = "submit_array_chunked" /\ pc = "returned"
    /\ app.array_range = <<0, 2>> /\ app.chunk_size = 2
    /\ app.items = <<<<0, 1>>, <<2, 2>>>>
    /\ app.log = <<[item |-> <<0, 1>>, result |-> "True"],
                   [item |-> <<2, 2>>, result |-> "False"]>>
    /\ app.ret = 1

\* -------------------------------------------------------------- SpecDryRun
\* submit_single with dry_run=True, under the default configuration and
\* under configurations that make the mock snapshot back off.

\* Config(): the defaults of the dataclass.
DefaultConfig ==
    [max_concurrent |-> 4, max_pending |-> 2, queue_threshold |-> 10,
     util_threshold |-> 85, peak_enabled |-> TRUE, peak_hours |-> <<<<9, 17>>>>,
     peak_max_concurrent |-> 2, weekend_exempt |-> TRUE,
     initial_backoff |-> 300, max_backoff |-> 18000, backoff_multiplier |-> 2,
     max_attempts |-> 20]

DryRunConfigs ==
    {DefaultConfig} \cup
    {MakeConfig(mc, mp, 0, ut, pk, 1, ma) :
        mc \in {0, MaxLimit}, mp \in {0, MaxLimit}, ut \in UtilThresholds,
        pk \in PeakSettings, ma \in 0..MaxAttempts}

InitDryRun ==
    /\ config \in DryRunConfigs
    /\ dry_run = TRUE
    /\ backoff = from_config(config)
    /\ state = NoState
    /\ now = NoTime
    /\ decision = None
    /\ reason = NoReason
    /\ wait_time = NoWait
    /\ job_id = None
    /\ pc = "loop"
    /\ result = None
    /\ probed = FALSE
    /\ waitedSinceProbe = FALSE
    /\ waitsSinceDecide = 0
    /\ lastWait = NoWait
    /\ submitLog = NoSubmit
    /\ prev = NoEval
    /\ env = NoEnv
    /\ app = NoCall

SpecDryRun == InitDryRun /\ [][Next]_vars

\* The snapshot of a dry run: probe_mock(utilization=0.5).
MockSnapshot == probe_mock(50, 0, 0, 0)

\* C28: in a dry run the snapshot is the mock one, never a probed one, and
\* the job id is the placeholder, never one of sbatch; under the default
\* configuration the run returns True in its first iteration, without a
\* backoff wait, whatever the time.
C28_DryRunRunsNothing ==
    dry_run =>
        /\ state \in {NoState, MockSnapshot}
        /\ job_id \in {None, "DRY-RUN-12345"}
        /\ submitLog.called => job_id = "DRY-RUN-12345" /\ result = "True"
        /\ config = DefaultConfig =>
              /\ pc \notin {"announce", "wait"}
              /\ decision # BACKOFF
              /\ pc = "probe" => ~probed
              /\ backoff.attempt = 0 /\ backoff.total_wait = 0
              /\ lastWait = NoWait /\ wait_time = NoWait
              /\ pc = "done" => result = "True" /\ submitLog.called
              /\ \A t \in Clock :
                    decide(MockSnapshot, DefaultConfig, t).decision = SUBMIT

C28_Witness ==
    /\ dry_run /\ config = DefaultConfig
    /\ pc = "done" /\ result = "True"
    /\ state = MockSnapshot
    /\ now = [weekday |-> 4, hour |-> 9]
    /\ job_id = "DRY-RUN-12345"
    /\ backoff.attempt = 0

\* ----------------------------------------------------------- SpecAggressive
\* Config.aggressive_mode and decide under the configuration it returns.

\* Config.aggressive_mode: fixed presets; peak_hours is carried over. The
\* multiplier 1.5 is the fraction <<3, 2>>.
aggressive_mode(c) ==
    [max_concurrent |-> 100, max_pending |-> 100, queue_threshold |-> 1000,
     util_threshold |-> 100, peak_enabled |-> FALSE, peak_hours |-> c.peak_hours,
     peak_max_concurrent |-> 100, weekend_exempt |-> TRUE,
     initial_backoff |-> 50, max_backoff |-> 600, backoff_multiplier |-> <<3, 2>>,
     max_attempts |-> 5]

\* Configurations with limits below and above the presets of aggressive_mode.
AggressiveBases ==
    {MakeConfig(mc, mp, qt, ut, pk, pmc, MaxAttempts) :
        mc \in {1, 101}, mp \in {1, 101}, qt \in {0, 1001},
        ut \in UtilThresholds, pk \in PeakSettings, pmc \in {1, 101}}

\* Snapshots with readings at and around the presets.
BusySnapshots ==
    {ClusterState(n[1], n[2], n[1] - n[2], r, p, o) :
        n \in NodeCounts, r \in {0, 1, 100}, p \in {0, 1, 100},
        o \in {0, 1, 1001}}

InitAggressive ==
    /\ config \in AggressiveBases
    /\ state \in BusySnapshots
    /\ dry_run = FALSE
    /\ backoff = from_config(config)
    /\ now = NoTime
    /\ decision = None
    /\ reason = NoReason
    /\ wait_time = NoWait
    /\ job_id = None
    /\ pc = "decide"
    /\ result = None
    /\ probed = FALSE
    /\ waitedSinceProbe = FALSE
    /\ waitsSinceDecide = 0
    /\ lastWait = NoWait
    /\ submitLog = NoSubmit
    /\ prev = NoEval
    /\ env = NoEnv
    /\ app = NoCall

\* decide on one snapshot at one time, under the configuration as loaded and
\* under config.aggressive_mode() (main, --aggressive).
EvaluateAggressive ==
    \E t \in Times :
        /\ now' = t
        /\ decision' = decide(state, config, t).decision
        /\ reason' = decide(state, config, t).reason
        /\ app' = [fn |-> "aggressive_mode", ret |-> aggressive_mode(config),
                   decision |-> decide(state, aggressive_mode(config), t).decision,
                   reason |-> decide(state, aggressive_mode(config), t).reason]
        /\ UNCHANGED <<env, config, dry_run, backoff, state, wait_time, job_id,
                       pc, result, probed, waitedSinceProbe, waitsSinceDecide,
                       lastWait, submitLog, prev>>

NextAggressive == EvaluateAggressive

SpecAggressive == InitAggressive /\ [][NextAggressive]_vars

\* C29: whenever decide returns Submit under a configuration, it returns
\* Submit under that configuration's aggressive_mode() as well, for the same
\* snapshot and time.
C29_AggressiveNeverStricter ==
    (app.fn = "aggressive_mode" /\ decision = SUBMIT) => app.decision = SUBMIT

\* ---------------------------------------------------------------- SpecParse
\* parse_sinfo, parse_squeue_states and parse_squeue_users on every output of
\* up to MaxLines lines.

\* The lines an output is made of: "<count> <state>" lines with the states
\* parse_sinfo knows, in either case, one it does not know, and a blank line.
SinfoLines ==
    {<<4, "alloc">>, <<1, "allocated">>, <<1, "mix">>, <<2, "MIXED">>,
     <<2, "idle">>, <<3, "down">>, <<>>}

SinfoTexts == UNION {[1..n -> SinfoLines] : n \in 0..MaxLines}

\* The lines of squeue -o '%t': job states in either case, one that is
\* neither running nor pending, and a blank line.
SqueueStateLines == {"R", "PD", "r", "pd", "CG", ""}

SqueueStateTexts == UNION {[1..n -> SqueueStateLines] : n \in 0..MaxLines}

\* The lines of squeue -t PENDING -o '%u': user names and a blank line.
SqueueUserLines == {"alice", "bob", "charlie", ""}

SqueueUserTexts == UNION {[1..n -> SqueueUserLines] : n \in 0..MaxLines}

\* The username a parse is made for.
Usernames == {"alice", "unknown"}

InitParse ==
    /\ \/ \E o \in SinfoTexts : env = [cmd |-> "sinfo", output |-> o]
       \/ \E o \in SqueueStateTexts :
              env = [cmd |-> "squeue_mine", output |-> o]
       \/ \E o \in SqueueUserTexts, u \in Usernames :
              env = [cmd |-> "squeue_pending", output |-> o, username |-> u]
    /\ app = NoCall
    /\ config = MakeConfig(MaxLimit, MaxLimit, 0, 100,
                           CHOOSE pk \in PeakSettings : ~pk.peak_enabled,
                           1, MaxAttempts)
    /\ dry_run = FALSE
    /\ backoff = from_config(config)
    /\ state = NoState
    /\ now = NoTime
    /\ decision = None
    /\ reason = NoReason
    /\ wait_time = NoWait
    /\ job_id = None
    /\ pc = "parse"
    /\ result = None
    /\ probed = FALSE
    /\ waitedSinceProbe = FALSE
    /\ waitsSinceDecide = 0
    /\ lastWait = NoWait
    /\ submitLog = NoSubmit
    /\ prev = NoEval

ParseSinfo ==
    /\ pc = "parse"
    /\ env.cmd = "sinfo"
    /\ app' = [fn |-> "parse_sinfo", ret |-> parse_sinfo(env.output)]
    /\ pc' = "parsed"
    /\ UNCHANGED <<env, config, dry_run, backoff, state, now, decision, reason,
                   wait_time, job_id, result, probed, waitedSinceProbe,
                   waitsSinceDecide, lastWait, submitLog, prev>>

ParseSqueueStates ==
    /\ pc = "parse"
    /\ env.cmd = "squeue_mine"
    /\ app' = [fn |-> "parse_squeue_states",
               ret |-> parse_squeue_states(env.output)]
    /\ pc' = "parsed"
    /\ UNCHANGED <<env, config, dry_run, backoff, state, now, decision, reason,
                   wait_time, job_id, result, probed, waitedSinceProbe,
                   waitsSinceDecide, lastWait, submitLog, prev>>

ParseSqueueUsers ==
    /\ pc = "parse"
    /\ env.cmd = "squeue_pending"
    /\ app' = [fn |-> "parse_squeue_users",
               ret |-> parse_squeue_users(env.output, env.username)]
    /\ pc' = "parsed"
    /\ UNCHANGED <<env, config, dry_run, backoff, state, now, decision, reason,
                   wait_time, job_id, result, probed, waitedSinceProbe,
                   waitsSinceDecide, lastWait, submitLog, prev>>

NextParse == ParseSinfo \/ ParseSqueueStates \/ ParseSqueueUsers

SpecParse == InitParse /\ [][NextParse]_vars

\* The sum of the counts of the lines at the positions in I.
RECURSIVE SumAt(_, _)
SumAt(output, I) ==
    IF I = {} THEN 0
    ELSE LET i == CHOOSE x \in I : TRUE
         IN  output[i][1] + SumAt(output, I \ {i})

\* The positions of the non-blank lines, and of those whose state token,
\* case apart, is one of tokens.
CountLines(output) == {i \in DOMAIN output : output[i] # <<>>}

LinesWith(output, tokens) ==
    {i \in CountLines(output) : Lower(output[i][2]) \in tokens}

NonBlank(output) == {i \in DOMAIN output : output[i] # ""}

StateLines(output, token) == {i \in DOMAIN output : Upper(output[i]) = token}

OwnLines(output, my_username) ==
    {i \in DOMAIN output : output[i] = my_username}

\* C32: parse_squeue_users counts the non-blank lines that are not the
\* caller's username, so that count plus the number of the caller's own
\* lines is the number of non-blank lines.
C32_SqueueOthersCount ==
    app.fn = "parse_squeue_users" =>
        /\ app.ret = Cardinality(NonBlank(env.output)
                                 \ OwnLines(env.output, env.username))
        /\ app.ret + Cardinality(OwnLines(env.output, env.username))
               = Cardinality(NonBlank(env.output))

C32_Witness ==
    /\ app.fn = "parse_squeue_users"
    /\ env.username = "alice"
    /\ env.output = <<"alice", "", "bob">>
    /\ app.ret = 1

\* ------------------------------------------- claims on the loop (C33..C36)

\* C33: the wait announced in the 'Backing off' message is the wait that
\* the following backoff.wait() takes.
C33_AnnouncedWaitIsTaken ==
    (pc # "wait" /\ lastWait # NoWait) => lastWait = wait_time

\* What holds of the attempt counter in every state of a run.
AttemptsWithinLimit ==
    /\ backoff.attempt <= backoff.max_attempts
    /\ (pc = "done" /\ result = "False") =>
          /\ backoff.attempt >= backoff.max_attempts
          /\ backoff.attempt = backoff.max_attempts
    /\ backoff.max_attempts = 0 =>
          /\ ~probed /\ ~submitLog.called
          /\ pc \in {"loop", "done"}
          /\ pc = "done" => result = "False"

\* The attempt counter counts the backoff waits: the wait step adds one to
\* it and no other step changes it.
AttemptCountsWaits ==
    IF pc = "wait"
    THEN backoff'.attempt = backoff.attempt + 1
    ELSE backoff'.attempt = backoff.attempt

JobIdReturned == job_id \notin {None, ""}

\* The run has returned True exactly when the submit_job call of its last
\* iteration returned a job id.
TrueIffJobId ==
    /\ JobIdReturned <=> (pc = "done" /\ result = "True")
    /\ JobIdReturned => submitLog.called

\* Nothing runs after the return, and the submission step ends the run
\* exactly when it obtains a job id.
EndsAtFirstJobId ==
    /\ pc # "done"
    /\ pc = "submit" => ((job_id' \notin {None, ""}) <=> pc' = "done")
    /\ pc' = "done" => (result' = "True" <=> pc = "submit")

FailedSubmissionKeepsController ==
    /\ (pc = "submit" /\ job_id' \in {None, ""}) =>
          /\ backoff' = backoff
          /\ lastWait' = NoWait
          /\ pc' = "loop"
    /\ pc = "loop" => (backoff' = backoff /\ pc' \in {"probe", "done"})

CongestionConfigs ==
    {MakeConfig(mc, mp, 0, ut, pk, 1, MaxAttempts) :
        mc \in 1..MaxLimit, mp \in 1..MaxLimit, ut \in UtilThresholds,
        pk \in PeakSettings}

InitCongestion ==
    /\ config \in CongestionConfigs
    /\ state \in Snapshots
    /\ dry_run = FALSE
    /\ backoff = from_config(config)
    /\ now = NoTime
    /\ decision = None
    /\ reason = NoReason
    /\ wait_time = NoWait
    /\ job_id = None
    /\ pc = "decide"
    /\ result = None
    /\ probed = FALSE
    /\ waitedSinceProbe = FALSE
    /\ waitsSinceDecide = 0
    /\ lastWait = NoWait
    /\ submitLog = NoSubmit
    /\ prev = NoEval
    /\ env = NoEnv
    /\ app = NoCall

SpecCongestion == InitCongestion /\ [][NextDecide]_vars


\* Snapshot s2 shows at least the congestion of s1 in every signal.
AtLeastAsCongested(s2, s1) ==
    /\ s2.my_running >= s1.my_running
    /\ s2.my_pending >= s1.my_pending
    /\ s2.others_pending >= s1.others_pending
    /\ utilization(s2)[1] * utilization(s1)[2]
          >= utilization(s1)[1] * utilization(s2)[2]

\* C37: when decide returned Backoff for a snapshot, it returns Backoff for
\* every snapshot that is at least as congested in each signal, under the
\* same configuration and at every time with the same peak state.
C37_BackoffMonotoneInCongestion ==
    (Evaluated /\ decision = BACKOFF) =>
        \A s2 \in Snapshots, t2 \in Times :
            (/\ AtLeastAsCongested(s2, state)
             /\ is_peak_hours(config, t2) = is_peak_hours(config, now))
            => decide(s2, config, t2).decision = BACKOFF

C37_Witness ==
    /\ Evaluated /\ decision = BACKOFF
    /\ reason.rule = "running"
    /\ state.my_running < MaxJobs
    /\ \E s2 \in Snapshots :
          /\ AtLeastAsCongested(s2, state)
          /\ s2.my_running > state.my_running

\* ------------------------------------------------- probe snapshots (C38)

\* C38: the snapshot probe returns has allocated_nodes + idle_nodes <=
\* total_nodes and a utilization between 0 and 1, whatever the scheduler
\* printed and whichever queries failed.
C38_ProbeCountsConsistent ==
    (app.fn = "probe" /\ pc = "done") =>
        /\ state.total_nodes >= 0
        /\ state.allocated_nodes >= 0 /\ state.idle_nodes >= 0
        /\ state.allocated_nodes + state.idle_nodes <= state.total_nodes
        /\ utilization(state)[2] > 0
        /\ 0 <= utilization(state)[1]
        /\ utilization(state)[1] <= utilization(state)[2]

C38_Witness ==
    /\ app.fn = "probe" /\ pc = "done"
    /\ env[1] = Returned(<<<<1, "MIXED">>, <<3>>, <<2, "allocated">>>>)
    /\ env[2] = Raised("timeout")
    /\ state.total_nodes = 3
    /\ state.allocated_nodes = 3

\* ---------------------------------------------------------------- SpecChunk
\* main with --array: the chunk size comes from --chunk or from the
\* configuration file, then submit_array_chunked builds its chunks.

\* --chunk: not given (<<>>) or an integer.
ChunkOptions == {<<>>} \cup {<<n>> : n \in MinChunk..MaxChunk}

\* array.chunk_size of the configuration file: any integer.
ChunkSettings == MinChunk..MaxChunk

\* The chunks the model keeps of the list: its first MaxChunkList; a loop
\* that ends builds at most one chunk for each index.
MaxChunkList == MaxIndex + 2

InitChunk ==
    /\ config \in BatchConfigs
    /\ dry_run = FALSE
    /\ backoff = from_config(config)
    /\ state = NoState
    /\ now = NoTime
    /\ decision = None
    /\ reason = NoReason
    /\ wait_time = NoWait
    /\ job_id = None
    /\ result = None
    /\ probed = FALSE
    /\ waitedSinceProbe = FALSE
    /\ waitsSinceDecide = 0
    /\ lastWait = NoWait
    /\ submitLog = NoSubmit
    /\ prev = NoEval
    /\ pc = "main"
    /\ app = NoCall
    /\ \E o \in ChunkOptions, c \in ChunkSettings, r \in ArrayRanges :
          env = [chunk |-> o, array_chunk_size |-> c, array_range |-> r]

\* main, lines 311-312 and 328-330: `if chunk:` takes the option unless it is
\* absent or 0; the call gets config.array_chunk_size.
MainArray ==
    /\ pc = "main"
    /\ LET array_chunk_size ==
               IF env.chunk # <<>> /\ env.chunk[1] # 0
               THEN env.chunk[1] ELSE env.array_chunk_size
       IN  app' = Frame("submit_array_chunked", <<>>, env.array_range,
                        array_chunk_size)
    /\ pc' = "parse"
    /\ UNCHANGED <<env, config, dry_run, backoff, state, now, decision, reason,
                   wait_time, job_id, result, probed, waitedSinceProbe,
                   waitsSinceDecide, lastWait, submitLog, prev>>

\* Line 198: the while test.
ChunkTest ==
    /\ pc = "chunking"
    /\ pc' = IF app.current <= app.end THEN "chunk" ELSE "for"
    /\ UNCHANGED <<app, env, config, dry_run, backoff, state, now, decision,
                   reason, wait_time, job_id, result, probed, waitedSinceProbe,
                   waitsSinceDecide, lastWait, submitLog, prev>>

\* Lines 199-201: the body of the while loop.
ChunkBody ==
    /\ pc = "chunk"
    /\ LET chunk_end == ChunkEnd(app.current, app.chunk_size, app.end)
       IN  app' = [app EXCEPT
                      !.items = IF Len(@) < MaxChunkList
                                THEN Append(@, <<app.current, chunk_end>>)
                                ELSE @,
                      !.current = chunk_end + 1]
    /\ pc' = "chunking"
    /\ UNCHANGED <<env, config, dry_run, backoff, state, now, decision, reason,
                   wait_time, job_id, result, probed, waitedSinceProbe,
                   waitsSinceDecide, lastWait, submitLog, prev>>

NextChunk == MainArray \/ ParseRange \/ ChunkTest \/ ChunkBody

SpecChunk == InitChunk /\ [][NextChunk]_vars

\* The program is one sequential thread: a step that can be taken is taken.
FairSpecChunk == SpecChunk /\ WF_vars(NextChunk)

\* C39: the chunk-building loop ends, for every range and every chunk size
\* that --chunk or the configuration can supply, 0 included.
C39_ChunkLoopTerminates == <>(pc = "for")

\* ------------------------------------------------- wait and wait_async (C40)

\* C40: wait and wait_async are one operation on the controller: from the
\* same state and with the same jitter draw they return the same wait and
\* leave the same controller; only wait sleeps, for the wait it returns.
C40_WaitAsyncSameAsWait ==
    Committed =>
        /\ \A j \in JitterDraws(app.before) :
              wait(app.before, j) = wait_async(app.before, j)
        /\ backoff = wait(app.before, app.jitter)
        /\ backoff = wait_async(app.before, app.jitter)
        /\ app.ret = calculate_wait(app.before, app.jitter)
        /\ app.fn = "wait" => app.slept = app.ret
        /\ app.fn = "wait_async" => app.slept = NoSleep

C40_Witness ==
    /\ app.fn = "wait_async"
    /\ app.slept = NoSleep
    /\ app.before.attempt = 1 /\ app.before.total_wait > 0
    /\ app.jitter = 5
    /\ backoff = wait(app.before, app.jitter)
    /\ backoff.total_wait = app.before.total_wait + app.ret

====
